---- MODULE Spec2Model ----
(***************************************************************************)
(* Jira task tracker (larmax82/jiraLogger): the monitoring engine of the   *)
(* browser extension -- PollingManager, XMLManager, NotificationManager    *)
(* -- as state machines.  Times are milliseconds, as in the source.        *)
(***************************************************************************)
EXTENDS Integers, Sequences, FiniteSets, Bags, TLC

VARIABLES
    \* PollingManager
    errorCounts,        \* Map taskId -> consecutive errors
    lastUpdateTimes,    \* Map taskId -> time of the last update
    interval,           \* the last getTaskInterval call: [taskId, delay]
    \* the clock read by Date.now() / new Date()
    now,
    \* XMLManager
    cache,              \* Map taskUrl -> previous task data
    failedRequests,     \* Map taskUrl -> the failures recorded for the url
    result,             \* what the last fetchTaskXML call returned or threw
    lastFetched,        \* history: Map taskUrl -> data of its last successful fetch
    fetchCall,          \* history: the last fetchTaskXML call, [taskUrl, before, repeat]
    \* XMLManager.detectChanges applied to a pair of records
    oldData, newData, changes,
    \* NotificationManager
    notificationQueue,  \* array of notifications
    isProcessing,       \* the drain loop's flag
    preferences,        \* [enabled, grouping]
    pc,                 \* position of processQueue: "idle", "show", "pause"
    showing,            \* the notification handed to showNotification
    timerDue,           \* when the pending 3 s timer of the drain loop fires, else 0
    calls,              \* history: one record per addNotification call
    presented,          \* history: the entries handed to showNotification, [serial, gap]
    lastDone,           \* history: when the last showNotification resolved, -1 while one runs
    drainers,           \* history: the processQueue calls that are inside the while loop
    \* TaskManager
    storage,            \* the persistent store: Map taskId -> saved task
    loops,              \* the monitor closures started by startMonitoring
    initState,          \* position of initialize: "loading", "resuming", "done", "failed"
    initQueue,          \* the saved entries initialize has still to resume
    lastAdd,            \* history: the addTask call that just returned or threw
    lastCycle,          \* history: the monitor cycle that just ended
    lastResume,         \* history: the resumeTask call that just returned
    streak,             \* history: taskId -> failed cycles since its last successful one
    spent,              \* history: the fetch responses and restarts of the run so far
    atRestart,          \* history: what the managers held at the restart, while initialize runs
    \* UpdateHandler
    updates,            \* array of updates, newest first
    jiraUpdates,        \* chrome.storage.local: the updates last saved
    badge               \* the number on the badge, 0 for no text

pollVars  == <<errorCounts, lastUpdateTimes, interval>>
xmlVars   == <<cache, failedRequests, result, lastFetched, fetchCall>>
diffVars  == <<oldData, newData, changes>>
notifVars == <<notificationQueue, isProcessing, preferences, pc, showing, timerDue, calls,
               presented, lastDone, drainers>>
taskVars  == <<storage, loops, initState, initQueue, lastAdd, lastCycle, lastResume,
               streak, spent, atRestart>>
updVars   == <<updates, jiraUpdates, badge>>
vars      == <<pollVars, now, xmlVars, diffVars, notifVars, taskVars, updVars>>

\* JavaScript's undefined: what Map.get gives for a missing key
Undefined == [undefined |-> TRUE]

\* new Map(): the function with the empty domain
EmptyMap == [k \in {} |-> Undefined]

MapGet(m, k) == IF k \in DOMAIN m THEN m[k] ELSE Undefined

MapSet(m, k, v) == [x \in (DOMAIN m) \cup {k} |-> IF x = k THEN v ELSE m[x]]

Min(a, b) == IF a < b THEN a ELSE b

\* a Map without the key k
MapDelete(m, k) == [x \in (DOMAIN m) \ {k} |-> m[x]]

TaskIds == {"PROJ-1", "PROJ-2"}

(***************************************************************************)
(* PollingManager                                                          *)
(***************************************************************************)

\* largest consecutive-error count drawn
MaxErr == 6

pollingInterval == 30000

\* sample clock readings: the tier thresholds (1 h, 24 h) and their neighbours
PollOffsets == {0, 1, 3599999, 3600000, 86399999, 86400000, 90000000}

PollTimes == {1000 + d : d \in PollOffsets}

\* every Map over a subset of keys with values in vals
Maps(keys, vals) == UNION {[d -> vals] : d \in SUBSET keys}

getTaskInterval_TierFirst(errs, lasts, clock, taskId) ==
    LET hasLastUpdate == taskId \in DOMAIN lasts
        lastUpdate == lasts[taskId]
        errorCount == IF taskId \in DOMAIN errs THEN errs[taskId] ELSE 0
    IN  IF ~hasLastUpdate \/ lastUpdate = 0
        THEN IF errorCount > 0
             THEN Min(pollingInterval * 2^errorCount, 900000)
             ELSE pollingInterval
        ELSE IF clock - lastUpdate < 3600000 THEN 30000
             ELSE IF clock - lastUpdate < 86400000 THEN 300000
             ELSE 900000

getTaskInterval_NoCap(errs, lasts, clock, taskId) ==
    LET hasLastUpdate == taskId \in DOMAIN lasts
        lastUpdate == lasts[taskId]
        errorCount == IF taskId \in DOMAIN errs THEN errs[taskId] ELSE 0
    IN  IF errorCount > 0
        THEN pollingInterval * 2^errorCount
        ELSE IF ~hasLastUpdate \/ lastUpdate = 0 THEN pollingInterval
        ELSE IF clock - lastUpdate < 3600000 THEN 30000
             ELSE IF clock - lastUpdate < 86400000 THEN 300000
             ELSE 900000

getTaskInterval_InclusiveTiers(errs, lasts, clock, taskId) ==
    LET hasLastUpdate == taskId \in DOMAIN lasts
        lastUpdate == lasts[taskId]
        errorCount == IF taskId \in DOMAIN errs THEN errs[taskId] ELSE 0
    IN  IF errorCount > 0
        THEN Min(pollingInterval * 2^errorCount, 900000)
        ELSE IF ~hasLastUpdate \/ lastUpdate = 0 THEN pollingInterval
        ELSE IF clock - lastUpdate <= 3600000 THEN 30000
             ELSE IF clock - lastUpdate <= 86400000 THEN 300000
             ELSE 900000

\* PollingManager.getTaskInterval: errs, lasts are the two Maps, clock is Date.now()
getTaskInterval(errs, lasts, clock, taskId) ==
    LET hasLastUpdate == taskId \in DOMAIN lasts
        lastUpdate == lasts[taskId]
        errorCount == IF taskId \in DOMAIN errs THEN errs[taskId] ELSE 0
    IN  IF errorCount > 0
        THEN Min(pollingInterval * 2^errorCount, 900000)
        ELSE IF ~hasLastUpdate \/ lastUpdate = 0 THEN pollingInterval
        ELSE IF clock - lastUpdate < 3600000 THEN 30000
             ELSE IF clock - lastUpdate < 86400000 THEN 300000
             ELSE 900000

\* a call of getTaskInterval, its result kept in interval
GetTaskInterval(taskId) ==
    /\ interval' = [taskId |-> taskId,
                    delay  |-> getTaskInterval(errorCounts, lastUpdateTimes, now, taskId)]
    /\ UNCHANGED <<errorCounts, lastUpdateTimes, now, xmlVars, diffVars, notifVars, taskVars, updVars>>

XmlIdle ==
    /\ cache = EmptyMap
    /\ failedRequests = EmptyMap
    /\ result = Undefined
    /\ lastFetched = EmptyMap
    /\ fetchCall = Undefined

DiffIdle ==
    /\ oldData = Undefined
    /\ newData = Undefined
    /\ changes = Undefined

NotifIdle ==
    /\ notificationQueue = <<>>
    /\ isProcessing = FALSE
    /\ preferences = [enabled |-> TRUE, sound |-> FALSE, grouping |-> TRUE]
    /\ pc = "idle"
    /\ showing = Undefined
    /\ timerDue = 0
    /\ calls = <<>>
    /\ presented = <<>>
    /\ lastDone = 0
    /\ drainers = 0

UpdIdle ==
    /\ updates = <<>>
    /\ jiraUpdates = <<>>
    /\ badge = 0

TaskIdle ==
    /\ storage = EmptyMap
    /\ loops = EmptyBag
    /\ initState = "done"
    /\ initQueue = <<>>
    /\ lastAdd = Undefined
    /\ lastCycle = Undefined
    /\ lastResume = Undefined
    /\ streak = [t \in TaskIds |-> 0]
    /\ spent = [cycles |-> 0, restarts |-> 0]
    /\ atRestart = Undefined

PollIdle ==
    /\ errorCounts = EmptyMap
    /\ lastUpdateTimes = EmptyMap
    /\ interval = Undefined

\* any task state: the two Maps and the clock are drawn, nothing has been asked yet
InitPoll ==
    /\ errorCounts \in Maps(TaskIds, 0..MaxErr)
    /\ lastUpdateTimes \in Maps(TaskIds, PollTimes)
    /\ now \in PollTimes
    /\ interval = Undefined
    /\ XmlIdle /\ DiffIdle /\ NotifIdle /\ TaskIdle /\ UpdIdle

NextPoll == \E taskId \in TaskIds : GetTaskInterval(taskId)

SpecPoll == InitPoll /\ [][NextPoll]_vars

\* the inputs of the last call, as getTaskInterval read them
CallErrorCount == IF interval.taskId \in DOMAIN errorCounts
                  THEN errorCounts[interval.taskId] ELSE 0

CallHasLastUpdate == interval.taskId \in DOMAIN lastUpdateTimes

CallElapsed == now - lastUpdateTimes[interval.taskId]

\* C1: the delay returned by getTaskInterval lies in [30 s, 15 min], whatever
\* the error count, the last-change time (or none) and the clock.
C1_DelayInRange ==
    interval # Undefined => (interval.delay >= 30000 /\ interval.delay <= 900000)

\* C1 witness: a call whose backoff 30 s * 2^k exceeded 15 min and was cut to it
C1_Witness ==
    /\ interval # Undefined
    /\ CallErrorCount >= 5
    /\ interval.delay = 900000

\* C2: with k > 0 consecutive errors the delay is exactly min(30 s * 2^k, 15 min),
\* whatever the time since the last change (any tier, or no last change).
C2_BackoffDominates ==
    (interval # Undefined /\ CallErrorCount > 0) =>
        interval.delay = Min(30000 * 2^CallErrorCount, 900000)

\* C2 witness: a task in the idle tier (24 h without change) with 2 errors gets 120 s
C2_Witness ==
    /\ interval # Undefined
    /\ CallErrorCount = 2
    /\ CallHasLastUpdate
    /\ CallElapsed >= 86400000
    /\ interval.delay = 120000

\* C3: with zero errors the delay is 30 s without a last-change time, else 30 s
\* when elapsed < 1 h, 5 min when 1 h <= elapsed < 24 h, 15 min when elapsed >= 24 h.
C3_ActivityTiers ==
    (interval # Undefined /\ CallErrorCount = 0) =>
        IF ~CallHasLastUpdate THEN interval.delay = 30000
        ELSE IF CallElapsed < 3600000 THEN interval.delay = 30000
        ELSE IF CallElapsed < 86400000 THEN interval.delay = 300000
        ELSE interval.delay = 900000

\* C3 witness: exactly 1 h after the last change the task is in the 5 min tier
C3_Witness ==
    /\ interval # Undefined
    /\ CallErrorCount = 0
    /\ CallHasLastUpdate
    /\ CallElapsed = 3600000
    /\ interval.delay = 300000

(***************************************************************************)
(* XMLManager                                                              *)
(***************************************************************************)

\* longest comment list drawn for a record
MaxComments == 3

\* longest comment list the remote serves in the runs of fetchTaskXML
MaxRemoteComments == 2

Urls == {"https://jira/browse/PROJ-1", "https://jira/browse/PROJ-2"}

ScalarFields == {"status", "assignee", "priority", "resolution"}

CommentTexts == {"c1", "c2"}

CommentLists(n) == UNION {[1..k -> CommentTexts] : k \in 0..n}

\* the task data parseXML yields: four scalar fields and the comment list
Records == [status     : {"To Do", "In Progress"},
            assignee   : {"alice", "bob"},
            priority   : {"Major", "Minor"},
            resolution : {"Unresolved", "Fixed"},
            comments   : CommentLists(MaxComments)]

\* the task data the remote serves in the runs of fetchTaskXML: status and
\* assignee vary, comments are added and deleted
RemoteRecords == {r \in Records : /\ r.priority = "Major"
                                  /\ r.resolution = "Unresolved"
                                  /\ Len(r.comments) <= MaxRemoteComments
                                  /\ \A i \in DOMAIN r.comments : r.comments[i] = "c1"}

\* Array.prototype.slice(start)
Slice(arr, start) == SubSeq(arr, start + 1, Len(arr))

detectChanges_SkipResolution(old, new) ==
    IF old = Undefined
    THEN [hasChanges |-> TRUE, details |-> [isNew |-> TRUE]]
    ELSE LET changed == {f \in {"status", "assignee", "priority"} : old[f] # new[f]}
             grew    == Len(new.comments) > Len(old.comments)
             keys    == changed \cup (IF grew THEN {"newComments"} ELSE {})
         IN  [hasChanges |-> (changed # {}) \/ grew,
              details |-> [k \in keys |->
                  IF k = "newComments"
                  THEN Slice(new.comments, Len(old.comments))
                  ELSE [from |-> old[k], to |-> new[k]]]]

detectChanges_SliceFromCount(old, new) ==
    IF old = Undefined
    THEN [hasChanges |-> TRUE, details |-> [isNew |-> TRUE]]
    ELSE LET changed == {f \in ScalarFields : old[f] # new[f]}
             grew    == Len(new.comments) > Len(old.comments)
             keys    == changed \cup (IF grew THEN {"newComments"} ELSE {})
         IN  [hasChanges |-> (changed # {}) \/ grew,
              details |-> [k \in keys |->
                  IF k = "newComments"
                  THEN Slice(new.comments, Len(new.comments) - Len(old.comments))
                  ELSE [from |-> old[k], to |-> new[k]]]]

detectChanges_AnyLengthChange(old, new) ==
    IF old = Undefined
    THEN [hasChanges |-> TRUE, details |-> [isNew |-> TRUE]]
    ELSE LET changed == {f \in ScalarFields : old[f] # new[f]}
             grew    == Len(new.comments) # Len(old.comments)
             keys    == changed \cup (IF grew THEN {"newComments"} ELSE {})
         IN  [hasChanges |-> (changed # {}) \/ grew,
              details |-> [k \in keys |->
                  IF k = "newComments"
                  THEN Slice(new.comments, Min(Len(old.comments), Len(new.comments)))
                  ELSE [from |-> old[k], to |-> new[k]]]]

\* XMLManager.detectChanges: details holds a key for each change found
detectChanges(old, new) ==
    IF old = Undefined
    THEN [hasChanges |-> TRUE, details |-> [isNew |-> TRUE]]
    ELSE LET changed == {f \in ScalarFields : old[f] # new[f]}
             grew    == Len(new.comments) > Len(old.comments)
             keys    == changed \cup (IF grew THEN {"newComments"} ELSE {})
         IN  [hasChanges |-> (changed # {}) \/ grew,
              details |-> [k \in keys |->
                  IF k = "newComments"
                  THEN Slice(new.comments, Len(old.comments))
                  ELSE [from |-> old[k], to |-> new[k]]]]

processXMLData_NoCacheUpdate(c, taskData, taskUrl) ==
    LET previousData == MapGet(c, taskUrl)
        found        == detectChanges(previousData, taskData)
    IN  [cache |-> c,
         ret   |-> [changed |-> found.hasChanges,
                    changes |-> found.details,
                    data    |-> taskData]]

processXMLData_CacheOnlyWhenKnown(c, taskData, taskUrl) ==
    LET previousData == MapGet(c, taskUrl)
        found        == detectChanges(previousData, taskData)
    IN  [cache |-> IF found.hasChanges /\ previousData # Undefined
                   THEN MapSet(c, taskUrl, taskData) ELSE c,
         ret   |-> [changed |-> found.hasChanges,
                    changes |-> found.details,
                    data    |-> taskData]]

\* processXMLData replacing the whole cache by the entry of the task fetched
processXMLData_ForgetOthers(c, taskData, taskUrl) ==
    LET previousData == MapGet(c, taskUrl)
        found        == detectChanges(previousData, taskData)
    IN  [cache |-> IF found.hasChanges THEN MapSet(EmptyMap, taskUrl, taskData) ELSE c,
         ret   |-> [changed |-> found.hasChanges,
                    changes |-> found.details,
                    data    |-> taskData]]

\* processXMLData writing the cache whether or not changes were found
processXMLData_AlwaysCache(c, taskData, taskUrl) ==
    LET previousData == MapGet(c, taskUrl)
        found        == detectChanges(previousData, taskData)
    IN  [cache |-> MapSet(c, taskUrl, taskData),
         ret   |-> [changed |-> found.hasChanges,
                    changes |-> found.details,
                    data    |-> taskData]]

\* XMLManager.processXMLData after parseXML gave taskData: the cache it leaves
\* and the value it returns
processXMLData(c, taskData, taskUrl) ==
    LET previousData == MapGet(c, taskUrl)
        found        == detectChanges(previousData, taskData)
    IN  [cache |-> IF found.hasChanges THEN MapSet(c, taskUrl, taskData) ELSE c,
         ret   |-> [changed |-> found.hasChanges,
                    changes |-> found.details,
                    data    |-> taskData]]

\* number of failures recorded for a url up to which a fetch fails again
MaxFailed == 2

\* the failures recorded for taskUrl
Failed(failed, taskUrl) == IF taskUrl \in DOMAIN failed THEN failed[taskUrl] ELSE 0

\* XMLManager.handleFetchError: one more failure is recorded for the url
handleFetchError(failed, taskUrl) == MapSet(failed, taskUrl, Failed(failed, taskUrl) + 1)

\* fetchTaskXML: fetch rejects ("network") or the response is not ok ("http")
FetchError(taskUrl, kind) ==
    /\ Failed(failedRequests, taskUrl) < MaxFailed
    /\ failedRequests' = handleFetchError(failedRequests, taskUrl)
    /\ result' = [taskUrl |-> taskUrl, error |-> kind]
    /\ fetchCall' = [taskUrl |-> taskUrl, before |-> MapGet(cache, taskUrl), repeat |-> FALSE]
    /\ UNCHANGED <<cache, lastFetched, pollVars, now, diffVars, notifVars, taskVars, updVars>>

\* fetchTaskXML caching some parsed record before parseXML throws
FetchParseError_PartialCommit(taskUrl) ==
    /\ failedRequests' = handleFetchError(MapDelete(failedRequests, taskUrl), taskUrl)
    /\ \E taskData \in RemoteRecords : cache' = MapSet(cache, taskUrl, taskData)
    /\ result' = [taskUrl |-> taskUrl, error |-> "parse"]
    /\ fetchCall' = [taskUrl |-> taskUrl, before |-> MapGet(cache, taskUrl), repeat |-> FALSE]
    /\ UNCHANGED <<lastFetched, pollVars, now, diffVars, notifVars, taskVars, updVars>>

\* fetchTaskXML: the response is ok and parseXML throws on its text
FetchParseError(taskUrl) ==
    /\ failedRequests' = handleFetchError(MapDelete(failedRequests, taskUrl), taskUrl)
    /\ result' = [taskUrl |-> taskUrl, error |-> "parse"]
    /\ fetchCall' = [taskUrl |-> taskUrl, before |-> MapGet(cache, taskUrl), repeat |-> FALSE]
    /\ UNCHANGED <<cache, lastFetched, pollVars, now, diffVars, notifVars, taskVars, updVars>>

\* fetchTaskXML: the response is ok and its text parses to taskData
FetchSuccess(taskUrl, taskData) ==
    LET done == processXMLData(cache, taskData, taskUrl)
    IN  /\ failedRequests' = MapDelete(failedRequests, taskUrl)
        /\ cache' = done.cache
        /\ result' = [taskUrl |-> taskUrl] @@ done.ret
        /\ lastFetched' = MapSet(lastFetched, taskUrl, taskData)
        /\ fetchCall' = [taskUrl |-> taskUrl,
                         before  |-> MapGet(cache, taskUrl),
                         repeat  |-> MapGet(lastFetched, taskUrl) = taskData]
        /\ UNCHANGED <<pollVars, now, diffVars, notifVars, taskVars, updVars>>

InitXML ==
    /\ XmlIdle
    /\ PollIdle /\ now = 0 /\ DiffIdle /\ NotifIdle /\ TaskIdle /\ UpdIdle

NextXML ==
    \E taskUrl \in Urls :
        \/ \E kind \in {"network", "http"} : FetchError(taskUrl, kind)
        \/ FetchParseError(taskUrl)
        \/ \E taskData \in RemoteRecords : FetchSuccess(taskUrl, taskData)

SpecXML == InitXML /\ [][NextXML]_vars

\* the last fetchTaskXML call returned (did not throw)
Returned == result # Undefined /\ "error" \notin DOMAIN result

\* C4: when two consecutive successful fetches of a task return the same record,
\* the second reports no change and leaves the cached snapshot as it was.
C4_Idempotent ==
    (Returned /\ fetchCall.repeat) =>
        /\ result.changed = FALSE
        /\ MapGet(cache, result.taskUrl) = fetchCall.before

\* C4 witness: a repeated fetch against a cached snapshot that differs from the
\* record served (the first fetch saw no change and kept the older snapshot)
C4_Witness ==
    /\ Returned
    /\ fetchCall.repeat
    /\ fetchCall.before # Undefined
    /\ fetchCall.before # result.data
    /\ result.changed = FALSE

\* C5: a successful fetch of a task with no cached snapshot yields isNew = true
\* and hasChanges = true, and the fetched record becomes the cached snapshot.
C5_FirstFetchIsNew ==
    (Returned /\ fetchCall.before = Undefined) =>
        /\ result.changed = TRUE
        /\ "isNew" \in DOMAIN result.changes
        /\ result.changes.isNew = TRUE
        /\ MapGet(cache, result.taskUrl) = result.data

\* C5 witness: a first successful fetch, after a failed one, of a record with a comment
C5_Witness ==
    /\ Returned
    /\ fetchCall.before = Undefined
    /\ result.data.comments # <<>>
    /\ result.changed = TRUE
    /\ result.taskUrl \in DOMAIN cache

\* the last fetchTaskXML call threw
Threw == result # Undefined /\ "error" \in DOMAIN result

\* C23: a cycle that fails (response not ok, network failure, or parse failure)
\* leaves the cached snapshot of the task exactly as it was before the cycle.
C23_FailureKeepsCache ==
    Threw => MapGet(cache, result.taskUrl) = fetchCall.before

\* a fetch of a task with a cached snapshot has just failed on parsing
C23_Witness ==
    /\ Threw
    /\ result.error = "parse"
    /\ fetchCall.before # Undefined

\* C24: after a successful cycle the cached snapshot of the task is the fetched
\* record if the change-set has changes and is what it was before if not; and no
\* step writes a cache entry except a successful cycle of that task with changes.
C24_CacheFollowsChanges ==
    /\ [](Returned =>
            MapGet(cache, result.taskUrl) =
                IF result.changed THEN result.data ELSE fetchCall.before)
    /\ [][\A taskUrl \in Urls :
              MapGet(cache', taskUrl) # MapGet(cache, taskUrl)
                  => (Returned' /\ result'.taskUrl = taskUrl /\ result'.changed)]_vars

\* a successful cycle with changes has just replaced an older snapshot
C24_Witness ==
    /\ Returned
    /\ result.changed
    /\ fetchCall.before # Undefined
    /\ "isNew" \notin DOMAIN result.changes
    /\ MapGet(cache, result.taskUrl) # fetchCall.before

\* C30: a parse failure counts like a fetch failure: every failing fetch, also one
\* whose response was ok and whose body did not parse, adds one to the failures
\* recorded for the task and clears none of them.
C30_ParseFailureKeepsCount ==
    [][(result' # Undefined /\ "error" \in DOMAIN result')
           => Failed(failedRequests', result'.taskUrl)
                  = Failed(failedRequests, result'.taskUrl) + 1]_vars

\* C32: a fetchTaskXML call for one task changes at most the cache entry of that
\* task: the cached snapshots of all other tasks stay as they were, and the call
\* writes nothing to the persistent store.
C32_OnlyOwnCacheEntry ==
    [][result' # result
           => /\ \A taskUrl \in Urls \ {result'.taskUrl} :
                     MapGet(cache', taskUrl) = MapGet(cache, taskUrl)
              /\ storage' = storage]_vars

\* a fetch has replaced the snapshot of one task while another task has one cached
C32_Witness ==
    /\ Returned
    /\ result.changed
    /\ fetchCall.before # Undefined
    /\ \E taskUrl \in Urls \ {result.taskUrl} : MapGet(cache, taskUrl) # Undefined

\* C37: whenever a fetch of a task returns a comment list longer than the one its
\* previous successful fetch returned, the later fetch reports changes with the
\* added comments, also when the list had shrunk at the previous fetch.
C37_GrowthAlwaysReported ==
    [][(/\ result' # Undefined /\ "error" \notin DOMAIN result'
        /\ result'.taskUrl \in DOMAIN lastFetched
        /\ lastFetched'[result'.taskUrl] = result'.data
        /\ Len(result'.data.comments) > Len(lastFetched[result'.taskUrl].comments))
           => (result'.changed /\ "newComments" \in DOMAIN result'.changes)]_vars

\* C39: after every successful fetch of a task the four scalar fields of its cached
\* snapshot are those of the record just fetched, and the cached comment list is at
\* least as long as the fetched one.
C39_CacheTracksRecord ==
    Returned =>
        /\ result.taskUrl \in DOMAIN cache
        /\ \A f \in ScalarFields : cache[result.taskUrl][f] = result.data[f]
        /\ Len(cache[result.taskUrl].comments) >= Len(result.data.comments)

\* a fetch without changes has returned a comment list shorter than the cached one
C39_Witness ==
    /\ Returned
    /\ ~result.changed
    /\ Len(cache[result.taskUrl].comments) > Len(result.data.comments)



(***************************************************************************)
(* detectChanges on every pair of a cached snapshot and a new record       *)
(***************************************************************************)

\* a call of detectChanges, its result kept in changes
DetectChanges ==
    /\ changes' = detectChanges(oldData, newData)
    /\ UNCHANGED <<oldData, newData, pollVars, now, xmlVars, notifVars, taskVars, updVars>>

InitDiff ==
    /\ oldData \in Records \cup {Undefined}
    /\ newData \in Records
    /\ changes = Undefined
    /\ PollIdle /\ now = 0 /\ XmlIdle /\ NotifIdle /\ TaskIdle /\ UpdIdle

NextDiff == DetectChanges

SpecDiff == InitDiff /\ [][NextDiff]_vars

\* detectChanges has run against a cached snapshot
Diffed == changes # Undefined /\ oldData # Undefined

OldCount == Len(oldData.comments)

NewCount == Len(newData.comments)

\* C6: against a cached snapshot, a scalar field has a delta {from, to} in the
\* details exactly when its old and new values differ, the delta holds the old
\* and the new value, and any delta comes with hasChanges = true.
C6_ScalarDeltas ==
    Diffed =>
        \A f \in ScalarFields :
            /\ (f \in DOMAIN changes.details) <=> (oldData[f] # newData[f])
            /\ (f \in DOMAIN changes.details) =>
                   /\ changes.details[f] = [from |-> oldData[f], to |-> newData[f]]
                   /\ changes.hasChanges = TRUE

\* C6 witness: only the resolution differs and its delta is recorded
C6_Witness ==
    /\ Diffed
    /\ DOMAIN changes.details = {"resolution"}
    /\ changes.details.resolution = [from |-> "Unresolved", to |-> "Fixed"]

\* C7: when the new comment list is longer (n > m), newComments is the last
\* n - m comments of the new list in their order, and hasChanges = true.
C7_NewCommentsTail ==
    (Diffed /\ NewCount > OldCount) =>
        /\ changes.hasChanges = TRUE
        /\ "newComments" \in DOMAIN changes.details
        /\ Len(changes.details.newComments) = NewCount - OldCount
        /\ \A i \in 1..(NewCount - OldCount) :
               changes.details.newComments[i] = newData.comments[OldCount + i]

\* C7 witness: the list grows from 1 to 3 comments and the two appended ones,
\* which differ, are reported in order
C7_Witness ==
    /\ Diffed
    /\ OldCount = 1
    /\ newData.comments = <<"c1", "c2", "c1">>
    /\ "newComments" \in DOMAIN changes.details
    /\ changes.details.newComments = <<"c2", "c1">>

\* C8: against a cached snapshot, hasChanges = true exactly when a scalar field
\* differs or the new comment list is strictly longer; edited comments and a
\* list of equal or smaller length alone give hasChanges = false.
C8_HasChangesIff ==
    Diffed =>
        (changes.hasChanges = TRUE <=>
            \/ \E f \in ScalarFields : oldData[f] # newData[f]
            \/ NewCount > OldCount)

\* C8 witness: the records differ only by an edited and a deleted comment, and
\* no change is reported
C8_Witness ==
    /\ Diffed
    /\ \A f \in ScalarFields : oldData[f] = newData[f]
    /\ oldData.comments = <<"c1", "c2">>
    /\ newData.comments = <<"c2">>
    /\ changes.hasChanges = FALSE

(***************************************************************************)
(* NotificationManager                                                     *)
(***************************************************************************)

\* number of addNotification calls in a run
MaxCalls == 3

\* number of clock steps in a run
MaxTicks == 2

\* one clock step: 150 s, so that notifications lie 0, 150 s, 300 s (the
\* grouping window), ... apart
TickMs == 150 * 1000

\* createMessage: the summary of one update, here the list holding the number
\* of the addNotification call
createMessage(update) == <<update.serial>>

\* createGroupMessage: the combined summary of a queued notification and a new one
createGroupMessage(similar, notification) == similar.message \o notification.message

\* NotificationManager.createNotification at clock reading clock.  title and
\* type, which nothing reads, are left out; serial is history: the number of
\* the addNotification call that made the notification
createNotification(update, clock) ==
    [id        |-> clock,
     taskKey   |-> update.taskKey,
     message   |-> createMessage(update),
     timestamp |-> clock,
     groupId   |-> update.taskKey,
     serial    |-> update.serial]

similarAt_WindowInSeconds(queue, notification) ==
    LET hits == {i \in DOMAIN queue :
                    /\ queue[i].groupId = notification.groupId
                    /\ (notification.timestamp - queue[i].timestamp) < 300}
    IN  IF hits = {} THEN 0 ELSE CHOOSE i \in hits : \A j \in hits : i <= j

\* the find of tryGroupNotification: the index of the first queued notification
\* of the same group less than 5 minutes older, 0 when there is none
similarAt(queue, notification) ==
    LET hits == {i \in DOMAIN queue :
                    /\ queue[i].groupId = notification.groupId
                    /\ (notification.timestamp - queue[i].timestamp) < 300000}
    IN  IF hits = {} THEN 0 ELSE CHOOSE i \in hits : \A j \in hits : i <= j

\* tryGroupNotification also moving the timestamp of the entry it merges into
tryGroupNotification_RefreshTimestamp(queue, notification) ==
    LET i == similarAt(queue, notification)
    IN  IF i # 0
        THEN [queue |-> [queue EXCEPT ![i].message =
                             createGroupMessage(queue[i], notification),
                                      ![i].timestamp = notification.timestamp],
              grouped |-> TRUE]
        ELSE [queue |-> queue, grouped |-> FALSE]

\* NotificationManager.tryGroupNotification: the queue it leaves and what it returns
tryGroupNotification(queue, notification) ==
    LET i == similarAt(queue, notification)
    IN  IF i # 0
        THEN [queue |-> [queue EXCEPT ![i].message =
                             createGroupMessage(queue[i], notification)],
              grouped |-> TRUE]
        ELSE [queue |-> queue, grouped |-> FALSE]

\* a notification handed to showNotification at time clock; gap is the time since the
\* presentation before it completed, up to 3000 ms, and -1 if that one still runs
Presentation(notification, clock) ==
    [serial |-> notification.serial,
     gap    |-> IF presented = <<>> THEN 3000
                ELSE IF lastDone < 0 THEN -1
                ELSE Min(clock - lastDone, 3000)]

\* the while loop of processQueue taking the newest entry (pop) instead of the oldest
DrainLoop_TakeLast(q, n) ==
    IF Len(q) > 0
    THEN /\ notificationQueue' = SubSeq(q, 1, Len(q) - 1)
         /\ showing' = q[Len(q)]
         /\ isProcessing' = TRUE
         /\ pc' = "show"
         /\ timerDue' = 0
         /\ presented' = Append(presented, Presentation(q[Len(q)], now))
         /\ lastDone' = -1
         /\ drainers' = n
    ELSE /\ notificationQueue' = q
         /\ showing' = Undefined
         /\ isProcessing' = FALSE
         /\ pc' = "idle"
         /\ timerDue' = 0
         /\ UNCHANGED <<presented, lastDone>>
         /\ drainers' = n - 1

\* processQueue at its while test with queue q: it takes the head and awaits
\* showNotification, or leaves the loop
DrainLoop(q, n) ==
    IF Len(q) > 0
    THEN /\ notificationQueue' = Tail(q)
         /\ showing' = Head(q)
         /\ isProcessing' = TRUE
         /\ pc' = "show"
         /\ timerDue' = 0
         /\ presented' = Append(presented, Presentation(Head(q), now))
         /\ lastDone' = -1
         /\ drainers' = n
    ELSE /\ notificationQueue' = q
         /\ showing' = Undefined
         /\ isProcessing' = FALSE
         /\ pc' = "idle"
         /\ timerDue' = 0
         /\ UNCHANGED <<presented, lastDone>>
         /\ drainers' = n - 1

\* NotificationManager.processQueue, called with queue q, up to its first await
processQueue(q) ==
    IF ~preferences.enabled
    THEN /\ notificationQueue' = q
         /\ UNCHANGED <<isProcessing, pc, showing, timerDue, presented, lastDone,
                                   drainers>>
    ELSE DrainLoop(q, drainers + 1)

\* the serial numbers of the calls whose notifications are in the queue
QueuedSerials(q) == {q[i].serial : i \in DOMAIN q}

\* addNotification calling processQueue without looking at isProcessing
AddNotification_AlwaysDrain(taskKey) ==
    /\ Len(calls) < MaxCalls
    /\ LET serial       == Len(calls) + 1
           update       == [taskKey |-> taskKey, serial |-> serial]
           notification == createNotification(update, now)
           tried        == tryGroupNotification(notificationQueue, notification)
           call         == [taskKey  |-> taskKey,
                            time     |-> now,
                            grouping |-> preferences.grouping,
                            queued   |-> QueuedSerials(notificationQueue)]
       IN  IF preferences.grouping /\ tried.grouped
           THEN /\ notificationQueue' = tried.queue
                /\ calls' = Append(calls, call @@
                       [outcome |-> "grouped",
                        into    |-> notificationQueue[similarAt(notificationQueue,
                                                                notification)].serial])
                /\ UNCHANGED <<isProcessing, pc, showing, timerDue, presented, lastDone,
                                   drainers>>
           ELSE /\ calls' = Append(calls, call @@ [outcome |-> "queued", into |-> serial])
                /\ processQueue(Append(notificationQueue, notification))
    /\ UNCHANGED <<preferences, now, pollVars, xmlVars, diffVars, taskVars, updVars>>

\* NotificationManager.addNotification for an update of task taskKey
AddNotification(taskKey) ==
    /\ Len(calls) < MaxCalls
    /\ LET serial       == Len(calls) + 1
           update       == [taskKey |-> taskKey, serial |-> serial]
           notification == createNotification(update, now)
           tried        == tryGroupNotification(notificationQueue, notification)
           call         == [taskKey  |-> taskKey,
                            time     |-> now,
                            grouping |-> preferences.grouping,
                            queued   |-> QueuedSerials(notificationQueue)]
       IN  IF preferences.grouping /\ tried.grouped
           THEN /\ notificationQueue' = tried.queue
                /\ calls' = Append(calls, call @@
                       [outcome |-> "grouped",
                        into    |-> notificationQueue[similarAt(notificationQueue,
                                                                notification)].serial])
                /\ UNCHANGED <<isProcessing, pc, showing, timerDue, presented, lastDone,
                                   drainers>>
           ELSE /\ calls' = Append(calls, call @@ [outcome |-> "queued", into |-> serial])
                /\ IF ~isProcessing
                   THEN processQueue(Append(notificationQueue, notification))
                   ELSE /\ notificationQueue' = Append(notificationQueue, notification)
                        /\ UNCHANGED <<isProcessing, pc, showing, timerDue, presented, lastDone,
                                   drainers>>
    /\ UNCHANGED <<preferences, now, pollVars, xmlVars, diffVars, taskVars, updVars>>

\* processQueue: showNotification resolves, the 3 s timer is set
ShowResolved ==
    /\ pc = "show"
    /\ pc' = "pause"
    /\ showing' = Undefined
    /\ timerDue' = now + 3000
    /\ lastDone' = now
    /\ UNCHANGED <<notificationQueue, isProcessing, preferences, calls, presented, drainers,
                   now, pollVars, xmlVars, diffVars, taskVars, updVars>>

\* processQueue: showNotification rejects; the await throws out of processQueue,
\* whose promise nobody awaits: the loop is gone and isProcessing stays as it is
ShowRejected ==
    /\ pc = "show"
    /\ pc' = "idle"
    /\ showing' = Undefined
    /\ drainers' = drainers - 1
    /\ UNCHANGED <<notificationQueue, isProcessing, preferences, calls, presented, lastDone,
                   timerDue, now, pollVars, xmlVars, diffVars, taskVars, updVars>>

\* processQueue: the 3 s timer fires, the loop tests the queue again
TimerFired ==
    /\ pc = "pause"
    /\ now >= timerDue
    /\ DrainLoop(notificationQueue, drainers)
    /\ UNCHANGED <<preferences, calls, now, pollVars, xmlVars, diffVars, taskVars, updVars>>

\* the user changes the preferences
SetPreferences(enabled, grouping) ==
    /\ preferences' = [preferences EXCEPT !.enabled = enabled, !.grouping = grouping]
    /\ preferences' # preferences
    /\ UNCHANGED <<notificationQueue, isProcessing, pc, showing, timerDue, calls,
                   presented, lastDone, drainers, now, pollVars, xmlVars, diffVars, taskVars, updVars>>

\* the clock advances
Tick ==
    /\ now + TickMs <= MaxTicks * TickMs
    /\ now' = now + TickMs
    /\ UNCHANGED <<pollVars, xmlVars, diffVars, notifVars, taskVars, updVars>>

InitNotif ==
    /\ NotifIdle
    /\ now = 0
    /\ PollIdle /\ XmlIdle /\ DiffIdle /\ TaskIdle /\ UpdIdle

NextNotif ==
    \/ \E taskKey \in TaskIds : AddNotification(taskKey)
    \/ ShowResolved
    \/ ShowRejected
    \/ TimerFired
    \/ \E enabled \in BOOLEAN, grouping \in BOOLEAN : SetPreferences(enabled, grouping)
    \/ Tick

SpecNotif == InitNotif /\ [][NextNotif]_vars

\* SpecNotif with what the event loop guarantees: the promise of showNotification
\* settles, time passes, and a timer that is due fires; nothing is assumed about
\* further addNotification calls or preference changes
SpecNotifLive ==
    /\ SpecNotif
    /\ WF_vars(ShowResolved \/ ShowRejected)
    /\ WF_vars(Tick)
    /\ WF_vars(TimerFired)

\* calls i and j: two updates of one task passed to addNotification less than
\* 5 minutes apart, both with grouping enabled, the first of which made an entry
GroupablePair(i, j) ==
    /\ i < j
    /\ calls[i].taskKey = calls[j].taskKey
    /\ calls[j].time - calls[i].time < 300000
    /\ calls[i].grouping /\ calls[j].grouping
    /\ calls[i].outcome = "queued"

C10_NoCloseEntries ==
    \A i, j \in DOMAIN notificationQueue :
        (i < j /\ notificationQueue[i].groupId = notificationQueue[j].groupId) =>
            notificationQueue[j].timestamp - notificationQueue[i].timestamp >= 300000

\* C10 amended: the queue never holds two entries of one group key with
\* timestamps less than 5 minutes apart, unless the later of the two was added
\* while the grouping preference was disabled.
C10_NoCloseEntriesGrouped ==
    \A i, j \in DOMAIN notificationQueue :
        (/\ i < j
         /\ notificationQueue[i].groupId = notificationQueue[j].groupId
         /\ calls[notificationQueue[j].serial].grouping) =>
            notificationQueue[j].timestamp - notificationQueue[i].timestamp >= 300000

\* C10 witness: two queued entries of one task, the later added with grouping
\* enabled, exactly 5 minutes after the earlier
C10_Witness ==
    \E i, j \in DOMAIN notificationQueue :
        /\ i < j
        /\ notificationQueue[i].groupId = notificationQueue[j].groupId
        /\ calls[notificationQueue[j].serial].grouping
        /\ notificationQueue[j].timestamp - notificationQueue[i].timestamp = 300000

\* C19: the queue is drained strictly first in, first out: the entries are handed
\* to showNotification in the order in which they were appended.
C19_DrainFifo ==
    \A j, k \in DOMAIN presented : j < k => presented[j].serial < presented[k].serial

\* three entries have been presented, one of them appended behind a waiting entry
C19_Witness ==
    /\ Len(presented) = 3
    /\ \E k \in DOMAIN calls : calls[k].outcome = "queued" /\ calls[k].queued # {}

\* C20: at most one drain loop is active at any time, no presentation starts before
\* the one before it has completed, and at least 3 s lie between that completion and
\* the start of the next presentation.
C20_OneDrainLoop ==
    /\ drainers <= 1
    /\ \A k \in DOMAIN presented : presented[k].gap >= 3000

\* a second presentation is under way while a further entry waits in the queue
C20_Witness ==
    /\ Len(presented) >= 2
    /\ pc = "show"
    /\ drainers = 1
    /\ Len(notificationQueue) >= 1

\* C21: while the enabled preference is false no entry is handed to
\* showNotification, also when it was switched off while the drain loop was running:
\* every step that presents an entry is taken with the preference true.
C21_DisabledNeverPresents ==
    [][presented' # presented => preferences.enabled]_vars

\* the queue length the runs stand for the bound of 100 entries with
QueueBound == 2

\* C22: the notification queue is bounded: whatever addNotification calls were
\* made, also while nothing is drained, its length never exceeds the bound.
C22_QueueBounded ==
    Len(notificationQueue) <= QueueBound

(***************************************************************************)
(* TaskManager                                                             *)
\* the last addNotification call merged its notification into a queued entry
Merged == calls # <<>> /\ calls[Len(calls)].outcome = "grouped"

\* C31: when addNotification merges the incoming notification into a queued entry,
\* the queue keeps its length and order, exactly the entry merged into changes and
\* only in its message (id, group key and timestamp stay), and the drain loop is
\* left as it was: none is started.
C31_MergeChangesOnlyMessage ==
    [][(Len(calls') = Len(calls) + 1 /\ Merged')
           => /\ Len(notificationQueue') = Len(notificationQueue)
              /\ \A i \in DOMAIN notificationQueue :
                     /\ [notificationQueue'[i] EXCEPT !.message = notificationQueue[i].message]
                            = notificationQueue[i]
                     /\ (notificationQueue'[i].message # notificationQueue[i].message)
                            <=> (notificationQueue[i].serial = calls'[Len(calls')].into)
              /\ UNCHANGED <<isProcessing, pc, showing, timerDue, presented, drainers>>]_vars

\* a merge into the second of two queued entries has just happened
C31_Witness ==
    /\ Merged
    /\ Len(notificationQueue) = 2
    /\ notificationQueue[2].serial = calls[Len(calls)].into
    /\ Len(notificationQueue[2].message) > 1

\* the notification of call serial is an entry of the queue
InQueue(serial) == serial \in QueuedSerials(notificationQueue)

\* the notification of call serial has been handed to showNotification
Shown(serial) == \E k \in DOMAIN presented : presented[k].serial = serial

\* the drain loop waits for its timer and the clock of the run has come to its end
Stalled == pc = "pause" /\ now < timerDue /\ now + TickMs > MaxTicks * TickMs

\* C34: with notifications enabled throughout, every entry of the queue (with the
\* change-sets merged into its message) is eventually handed to showNotification:
\* no entry stays in the queue forever.
C34_EnabledEventuallyPresents ==
    []preferences.enabled
        => \A serial \in 1..MaxCalls : InQueue(serial) ~> (Shown(serial) \/ Stalled)

\* C35: an entry that is in the queue when notifications are enabled (again) is
\* eventually handed to showNotification, unless they are disabled once more; no
\* further addNotification call is needed for it.
C35_ReenableDrains ==
    \A serial \in 1..MaxCalls :
        (InQueue(serial) /\ preferences.enabled)
            ~> (Shown(serial) \/ Stalled \/ ~preferences.enabled)

\* C36: a showNotification that rejects does not leave the dispatcher stuck:
\* isProcessing is true only while a processQueue call is inside its drain loop, so
\* that a later addNotification starts the drain again.
C36_RejectionFreesDispatcher ==
    isProcessing => drainers > 0

(***************************************************************************)
(* UpdateHandler                                                           *)
(***************************************************************************)

\* UpdateHandler.maxUpdates
maxUpdates == 100

\* number of addUpdate calls in a run
MaxAdds == 103

\* history: the number of the addUpdate call that is next
NextSerial == IF updates = <<>> THEN 1 ELSE updates[1].serial + 1

\* addUpdate without the pop of the last element
addUpdate_NoTrim(list, update, clock) ==
    <<[serial |-> update.serial, id |-> clock, read |-> FALSE]>> \o list

\* UpdateHandler.addUpdate up to saveUpdates: unshift of the update with id and
\* read set, then pop when the list is longer than maxUpdates
addUpdate(list, update, clock) ==
    LET unshifted == <<[serial |-> update.serial, id |-> clock, read |-> FALSE]>> \o list
    IN  IF Len(unshifted) > maxUpdates
        THEN SubSeq(unshifted, 1, Len(unshifted) - 1)
        ELSE unshifted

\* updateBadge: the number of unread updates, 0 for the empty text
updateBadge(list) == Cardinality({i \in DOMAIN list : ~list[i].read})

\* a call of addUpdate: the list, what saveUpdates stores, and the badge
AddUpdate ==
    /\ NextSerial <= MaxAdds
    /\ updates' = addUpdate(updates, [serial |-> NextSerial], now)
    /\ jiraUpdates' = updates'
    /\ badge' = updateBadge(updates')
    /\ UNCHANGED <<pollVars, now, xmlVars, diffVars, notifVars, taskVars>>

\* the readings of Date.now() in a run: calls in the same millisecond and in the next
UpdateTimes == {0, 1}

\* a millisecond passes
UpdateTick ==
    /\ now + 1 \in UpdateTimes
    /\ now' = now + 1
    /\ UNCHANGED <<pollVars, xmlVars, diffVars, notifVars, taskVars, updVars>>

InitUpdate ==
    /\ UpdIdle
    /\ now = 0
    /\ PollIdle /\ XmlIdle /\ DiffIdle /\ NotifIdle /\ TaskIdle

NextUpdate ==
    \/ AddUpdate
    \/ UpdateTick

SpecUpdate == InitUpdate /\ [][NextUpdate]_vars

\* C33: after any sequence of addUpdate calls the list holds at most maxUpdates
\* entries, newest first, and they are the most recent ones without a gap: a call
\* on a full list evicts exactly the oldest entry.  What is saved is the list.
C33_UpdatesBounded ==
    /\ Len(updates) <= maxUpdates
    /\ updates # <<>> => Len(updates) = Min(updates[1].serial, maxUpdates)
    /\ \A i \in DOMAIN updates : updates[i].serial = updates[1].serial - i + 1
    /\ jiraUpdates = updates

\* the list is full and the oldest entries have been evicted
C33_Witness ==
    /\ Len(updates) = maxUpdates
    /\ updates[1].serial > maxUpdates + 1

(***************************************************************************)

\* number of live monitor closures up to which addTask is called
MaxStarts == 2

\* number of fetch responses in a run
MaxCycles == 3

\* TaskManager.extractTaskId: the issue key at the end of the url
extractTaskId(taskUrl) ==
    IF taskUrl = "https://jira/browse/PROJ-1" THEN "PROJ-1" ELSE "PROJ-2"

\* the task data the remote serves in the runs of the monitor loops
TaskRecords == {r \in Records : /\ r.status = "In Progress"
                                /\ r.assignee = "alice"
                                /\ r.priority = "Major"
                                /\ r.comments = <<>>}

\* the terminal predicate, configured outside: the issue is resolved
isTerminal(record) == record.resolution = "Fixed"

\* the consecutive-error count getTaskInterval reads for taskId
errorCountOf(errs, taskId) == IF taskId \in DOMAIN errs THEN errs[taskId] ELSE 0

\* a monitor closure right after startMonitoring called it: awaiting fetchTaskXML;
\* delay is the nextInterval of the timer that started the cycle, 0 when monitor was
\* called directly; changed and data hold result while handleChanges is awaited; seen
\* is history: in the first cycle after a resume, the record the XMLManager held for
\* the task when the process, at rest, was restarted
NewLoop(taskId, taskUrl) ==
    [taskId |-> taskId, url |-> taskUrl, pc |-> "fetch", data |-> Undefined,
     delay |-> 0, changed |-> FALSE, seen |-> Undefined]

\* the monitor closures of taskId whose cycle is in flight or whose timer is pending
LoopsOf(ls, taskId) == [l \in {x \in BagToSet(ls) : x.taskId = taskId} |-> ls[l]]

\* startMonitoring: one more closure, its first cycle in flight
Started(ls, taskId, taskUrl) == ls (+) SetToBag({NewLoop(taskId, taskUrl)})

\* the task object addTask builds; lastCheck: null is written 0
NewTask(taskUrl, clock) ==
    [url |-> taskUrl, added |-> clock, lastCheck |-> 0, status |-> "active"]

\* StorageManager.saveTask
saveTask(store, taskId, task) == MapSet(store, taskId, task)

\* what handleChanges and handleError add to the saved task
SavedSnapshot(task) == IF "snapshot" \in DOMAIN task THEN task.snapshot ELSE Undefined

SavedErrorCount(task) == IF "errorCount" \in DOMAIN task THEN task.errorCount ELSE 0

SavedLastChange(task) == IF "lastChange" \in DOMAIN task THEN task.lastChange ELSE 0

\* a saved task with the fields of upd written over it
Updated(task, upd) ==
    [k \in (DOMAIN task) \cup (DOMAIN upd) |-> IF k \in DOMAIN upd THEN upd[k] ELSE task[k]]

\* the closure l has gone on to next
Moved(ls, l, next) == (ls (-) SetToBag({l})) (+) SetToBag({next})

\* the closure l has returned without setting a timer
Ended(ls, l) == ls (-) SetToBag({l})

\* what SpecTask leaves alone: the histories of the other managers' calls
OtherManagers ==
    UNCHANGED <<interval, result, lastFetched, fetchCall, diffVars, notifVars, updVars>>

\* a step of the running process: no time passes
TaskFrame == OtherManagers /\ UNCHANGED now

\* addTask with saveTask moved before the awaited validateTask
AddTask_SaveFirst(taskUrl, reachable) ==
    LET taskId == extractTaskId(taskUrl)
        task   == NewTask(taskUrl, now)
    IN  /\ BagCardinality(loops) < MaxStarts
        /\ storage' = saveTask(storage, taskId, task)
        /\ IF reachable
           THEN /\ loops' = Started(loops, taskId, taskUrl)
                /\ lastAdd' = [url |-> taskUrl, outcome |-> "returned"]
           ELSE /\ loops' = loops
                /\ lastAdd' = [url |-> taskUrl, outcome |-> "ValidationError"]
        /\ lastCycle' = Undefined /\ lastResume' = Undefined
        /\ UNCHANGED <<spent, errorCounts, lastUpdateTimes, cache, failedRequests,
                       initState, initQueue, streak, atRestart>>
        /\ TaskFrame

\* addTask starting the monitor without having saved the task
AddTask_StartUnsaved(taskUrl, reachable) ==
    LET taskId == extractTaskId(taskUrl)
    IN  /\ BagCardinality(loops) < MaxStarts
        /\ IF reachable
           THEN /\ loops' = Started(loops, taskId, taskUrl)
                /\ lastAdd' = [url |-> taskUrl, outcome |-> "returned"]
           ELSE /\ UNCHANGED loops
                /\ lastAdd' = [url |-> taskUrl, outcome |-> "ValidationError"]
        /\ lastCycle' = Undefined /\ lastResume' = Undefined
        /\ UNCHANGED <<storage, spent, errorCounts, lastUpdateTimes, cache, failedRequests,
                       initState, initQueue, streak, atRestart>>
        /\ TaskFrame

\* addTask: validateTask throws, or the task is saved and its monitor started
AddTask(taskUrl, reachable) ==
    LET taskId == extractTaskId(taskUrl)
        task   == NewTask(taskUrl, now)
    IN  /\ BagCardinality(loops) < MaxStarts
        /\ IF reachable
           THEN /\ storage' = saveTask(storage, taskId, task)
                /\ loops' = Started(loops, taskId, taskUrl)
                /\ lastAdd' = [url |-> taskUrl, outcome |-> "returned"]
           ELSE /\ UNCHANGED <<storage, loops>>
                /\ lastAdd' = [url |-> taskUrl, outcome |-> "ValidationError"]
        /\ lastCycle' = Undefined /\ lastResume' = Undefined
        /\ UNCHANGED <<spent, errorCounts, lastUpdateTimes, cache, failedRequests,
                       initState, initQueue, streak, atRestart>>
        /\ TaskFrame

\* handleError: the consecutive-error count of the task goes up by one and is saved
handleError(errs, store, taskId) ==
    LET count == errorCountOf(errs, taskId) + 1
    IN  [errorCounts |-> MapSet(errs, taskId, count),
         storage     |-> IF taskId \in DOMAIN store
                         THEN saveTask(store, taskId,
                                       Updated(store[taskId], [errorCount |-> count]))
                         ELSE store]

\* handleChanges: the count is reset, the change time noted, and the task saved with
\* the new snapshot (completed when the record is terminal); a removed task is not saved;
\* handed is the number of change-sets passed to addNotification
handleChanges(errs, lasts, store, clock, taskId, data) ==
    [handed          |-> 1,
     errorCounts     |-> MapSet(errs, taskId, 0),
     lastUpdateTimes |-> MapSet(lasts, taskId, clock),
     storage         |-> IF taskId \in DOMAIN store
                         THEN saveTask(store, taskId,
                                       Updated(store[taskId],
                                               [lastCheck  |-> clock,
                                                lastChange |-> clock,
                                                snapshot   |-> data,
                                                errorCount |-> 0,
                                                status     |-> IF isTerminal(data)
                                                               THEN "completed"
                                                               ELSE store[taskId].status]))
                         ELSE store]

\* the record of a monitor cycle that ended: errors is the count getTaskInterval
\* reads after it, streak the failed cycles since the last successful one, handed the
\* number of change-sets the cycle passed to the NotificationManager, repeat whether
\* it was the first cycle after a resume and fetched the record seen before the restart
Cycle(taskId, outcome, changed, delay, errors, failures, handed, repeat) ==
    [taskId |-> taskId, outcome |-> outcome, changed |-> changed, delay |-> delay,
     errors |-> errors, streak |-> failures, handed |-> handed, repeat |-> repeat]

\* monitor: fetchTaskXML throws; the catch block calls handleError and sets no timer
CycleFail(l, kind) ==
    LET done == handleError(errorCounts, storage, l.taskId)
    IN  /\ l.pc = "fetch"
        /\ spent.cycles < MaxCycles
        /\ spent' = [spent EXCEPT !.cycles = @ + 1]
        /\ failedRequests' = IF kind = "parse"
                             THEN handleFetchError(MapDelete(failedRequests, l.url), l.url)
                             ELSE handleFetchError(failedRequests, l.url)
        /\ errorCounts' = done.errorCounts
        /\ storage' = done.storage
        /\ loops' = Ended(loops, l)
        /\ streak' = [streak EXCEPT ![l.taskId] = @ + 1]
        /\ lastCycle' = Cycle(l.taskId, "failed", FALSE, 0,
                              errorCountOf(done.errorCounts, l.taskId),
                              streak[l.taskId] + 1, 0, FALSE)
        /\ lastAdd' = Undefined /\ lastResume' = Undefined
        /\ UNCHANGED <<lastUpdateTimes, cache, initState, initQueue, atRestart>>
        /\ TaskFrame

\* monitor calling handleChanges after every fetchTaskXML that returns
CycleSuccess_AlwaysHandle(l, taskData) ==
    LET done  == processXMLData(cache, taskData, l.url)
        delay == getTaskInterval(errorCounts, lastUpdateTimes, now, l.taskId)
    IN  /\ l.pc = "fetch"
        /\ spent.cycles < MaxCycles
        /\ spent' = [spent EXCEPT !.cycles = @ + 1]
        /\ failedRequests' = MapDelete(failedRequests, l.url)
        /\ cache' = done.cache
        /\ loops' = Moved(loops, l, [l EXCEPT !.pc = "handle", !.data = taskData,
                                                !.changed = done.ret.changed])
        /\ lastCycle' = Undefined
        /\ UNCHANGED streak
        /\ lastAdd' = Undefined /\ lastResume' = Undefined
        /\ UNCHANGED <<errorCounts, lastUpdateTimes, storage, initState, initQueue, atRestart>>
        /\ TaskFrame

\* monitor: fetchTaskXML returns; without changes the next timer is set at once,
\* with changes the closure awaits handleChanges
CycleSuccess(l, taskData) ==
    LET done  == processXMLData(cache, taskData, l.url)
        delay == getTaskInterval(errorCounts, lastUpdateTimes, now, l.taskId)
    IN  /\ l.pc = "fetch"
        /\ spent.cycles < MaxCycles
        /\ spent' = [spent EXCEPT !.cycles = @ + 1]
        /\ failedRequests' = MapDelete(failedRequests, l.url)
        /\ cache' = done.cache
        /\ IF done.ret.changed
           THEN /\ loops' = Moved(loops, l, [l EXCEPT !.pc = "handle", !.data = taskData,
                                                         !.changed = TRUE])
                /\ lastCycle' = Undefined
                /\ UNCHANGED streak
           ELSE /\ loops' = Moved(loops, l, [l EXCEPT !.pc = "timer", !.delay = delay,
                                                         !.seen = Undefined])
                /\ streak' = [streak EXCEPT ![l.taskId] = 0]
                /\ lastCycle' = Cycle(l.taskId, "ok", FALSE, delay,
                                      errorCountOf(errorCounts, l.taskId), 0, 0,
                                      l.seen = taskData)
        /\ lastAdd' = Undefined /\ lastResume' = Undefined
        /\ UNCHANGED <<errorCounts, lastUpdateTimes, storage, initState, initQueue, atRestart>>
        /\ TaskFrame

\* monitor: handleChanges resolves; the next timer is set
HandleDone(l) ==
    LET done  == handleChanges(errorCounts, lastUpdateTimes, storage, now, l.taskId, l.data)
        delay == getTaskInterval(done.errorCounts, done.lastUpdateTimes, now, l.taskId)
    IN  /\ l.pc = "handle"
        /\ errorCounts' = done.errorCounts
        /\ lastUpdateTimes' = done.lastUpdateTimes
        /\ storage' = done.storage
        /\ loops' = Moved(loops, l, [l EXCEPT !.pc = "timer", !.data = Undefined,
                                                !.changed = FALSE, !.delay = delay,
                                                !.seen = Undefined])
        /\ streak' = [streak EXCEPT ![l.taskId] = 0]
        /\ lastCycle' = Cycle(l.taskId, "ok", l.changed, delay,
                              errorCountOf(done.errorCounts, l.taskId), 0, done.handed,
                              l.seen = l.data)
        /\ lastAdd' = Undefined /\ lastResume' = Undefined
        /\ UNCHANGED <<spent, cache, failedRequests, initState, initQueue, atRestart>>
        /\ TaskFrame

\* the timer set by setTimeout(monitor, nextInterval) fires: monitor runs again
MonitorTimer(l) ==
    /\ l.pc = "timer"
    /\ loops' = Moved(loops, l, [l EXCEPT !.pc = "fetch"])
    /\ lastAdd' = Undefined /\ lastCycle' = Undefined /\ lastResume' = Undefined
    /\ UNCHANGED <<spent, errorCounts, lastUpdateTimes, cache, failedRequests, storage,
                   initState, initQueue, streak, atRestart>>
    /\ TaskFrame


\* removing a task: deleteTask in the store, and the managers forget the task; the
\* timer handles of its monitor closures were never kept
RemoveTask(taskId) ==
    /\ taskId \in DOMAIN storage
    /\ storage' = MapDelete(storage, taskId)
    /\ errorCounts' = MapDelete(errorCounts, taskId)
    /\ lastUpdateTimes' = MapDelete(lastUpdateTimes, taskId)
    /\ cache' = MapDelete(cache, storage[taskId].url)
    /\ streak' = [streak EXCEPT ![taskId] = 0]
    /\ lastAdd' = Undefined /\ lastCycle' = Undefined /\ lastResume' = Undefined
    /\ UNCHANGED <<spent, failedRequests, loops, initState, initQueue, atRestart>>
    /\ TaskFrame

\* what the managers hold for a task in memory
InMemory(errs, c, taskId, taskUrl) ==
    [url        |-> taskUrl,
     snapshot   |-> MapGet(c, taskUrl),
     errorCount |-> errorCountOf(errs, taskId)]

\* the time the process is down before it restarts
RestartGaps == {3600001, 86400001}

\* the process restarts, once in a run: the constructors run again, only the store
\* survives
Restart ==
    /\ storage # EmptyMap
    /\ \E gap \in RestartGaps : now' = now + gap
    /\ spent.restarts = 0
    /\ spent' = [spent EXCEPT !.restarts = @ + 1]
    /\ errorCounts' = EmptyMap
    /\ lastUpdateTimes' = EmptyMap
    /\ cache' = EmptyMap
    /\ failedRequests' = EmptyMap
    /\ loops' = EmptyBag
    /\ initState' = "loading"
    /\ initQueue' = <<>>
    /\ atRestart' = [tasks |-> [t \in {l.taskId : l \in BagToSet(loops)} |->
                                   InMemory(errorCounts, cache, t,
                                            (CHOOSE l \in BagToSet(loops) : l.taskId = t).url)],
                     quiet |-> \A l \in BagToSet(loops) : l.pc = "timer"]
    /\ lastAdd' = Undefined /\ lastCycle' = Undefined /\ lastResume' = Undefined
    /\ UNCHANGED <<storage, streak>>
    /\ OtherManagers

\* the orders Object.entries can list the saved tasks in
Entries(saved) ==
    {q \in [1..Cardinality(DOMAIN saved) -> DOMAIN saved] :
        \A a, b \in DOMAIN q : a # b => q[a] # q[b]}

\* initialize: loadTasks resolves with the saved tasks
InitLoaded ==
    /\ initState = "loading"
    /\ \E q \in Entries(storage) :
           initQueue' = [k \in DOMAIN q |-> [taskId |-> q[k], taskData |-> storage[q[k]]]]
    /\ initState' = IF storage = EmptyMap THEN "done" ELSE "resuming"
    /\ atRestart' = IF storage = EmptyMap THEN Undefined ELSE atRestart
    /\ lastAdd' = Undefined /\ lastCycle' = Undefined /\ lastResume' = Undefined
    /\ UNCHANGED <<spent, errorCounts, lastUpdateTimes, cache, failedRequests, storage, loops, streak>>
    /\ TaskFrame

\* resumeTask: the managers get back what was saved with the task, and monitoring
\* starts again unless the saved status is completed
resumeTask(errs, lasts, c, ls, taskId, taskData) ==
    [errorCounts     |-> MapSet(errs, taskId, SavedErrorCount(taskData)),
     lastUpdateTimes |-> IF SavedLastChange(taskData) # 0
                         THEN MapSet(lasts, taskId, SavedLastChange(taskData))
                         ELSE lasts,
     cache           |-> IF SavedSnapshot(taskData) # Undefined
                         THEN MapSet(c, taskData.url, SavedSnapshot(taskData))
                         ELSE c,
     loops           |-> IF taskData.status = "active"
                         THEN Started(ls, taskId, taskData.url)
                         ELSE ls]

\* initialize, one turn of the for loop: the awaited resumeTask resolves or throws;
\* a throw ends initialize, nothing catches it
ResumeTask(ok) ==
    LET taskId   == initQueue[1].taskId
        taskData == initQueue[1].taskData
        done     == resumeTask(errorCounts, lastUpdateTimes, cache, loops, taskId, taskData)
        last     == Len(initQueue) = 1
    IN  /\ initState = "resuming"
        /\ IF ok
           THEN /\ errorCounts' = done.errorCounts
                /\ lastUpdateTimes' = done.lastUpdateTimes
                /\ cache' = done.cache
                /\ loops' = IF done.loops # loops /\ atRestart.quiet
                                /\ taskId \in DOMAIN atRestart.tasks
                             THEN Moved(done.loops, NewLoop(taskId, taskData.url),
                                        [NewLoop(taskId, taskData.url) EXCEPT
                                            !.seen = atRestart.tasks[taskId].snapshot])
                             ELSE done.loops
                /\ initQueue' = Tail(initQueue)
                /\ initState' = IF last THEN "done" ELSE "resuming"
                /\ atRestart' = IF last THEN Undefined ELSE atRestart
                /\ lastResume' = [taskId  |-> taskId,
                                  status  |-> taskData.status,
                                  started |-> done.loops # loops,
                                  task    |-> InMemory(done.errorCounts, done.cache,
                                                       taskId, taskData.url),
                                  before  |-> MapGet(atRestart.tasks, taskId),
                                  quiet   |-> atRestart.quiet]
           ELSE /\ initState' = "failed"
                /\ atRestart' = Undefined
                /\ lastResume' = Undefined
                /\ UNCHANGED <<errorCounts, lastUpdateTimes, cache, loops, initQueue>>
        /\ lastAdd' = Undefined /\ lastCycle' = Undefined
        /\ UNCHANGED <<spent, failedRequests, storage, streak>>
        /\ TaskFrame

InitTask ==
    /\ TaskIdle
    /\ PollIdle /\ now = 1000 /\ XmlIdle /\ DiffIdle /\ NotifIdle /\ UpdIdle

\* tasks are added in the first session of the run
NextTask ==
    \/ /\ spent.restarts = 0
       /\ \E taskUrl \in Urls, reachable \in BOOLEAN : AddTask(taskUrl, reachable)
    \/ \E l \in BagToSet(loops) :
           \/ \E kind \in {"http", "parse"} : CycleFail(l, kind)
           \/ \E taskData \in TaskRecords : CycleSuccess(l, taskData)
           \/ HandleDone(l)
           \/ MonitorTimer(l)
    \/ \E taskId \in TaskIds : RemoveTask(taskId)
    \/ Restart
    \/ InitLoaded
    \/ \E ok \in BOOLEAN : ResumeTask(ok)

SpecTask == InitTask /\ [][NextTask]_vars

\* SpecTask with what the event loop guarantees: a resolved handleChanges or loadTasks
\* is continued and a timer that is set fires; no assumption is made on the remote
\* ever answering a fetch
SpecTaskLive ==
    /\ SpecTask
    /\ WF_vars(\E l \in BagToSet(loops) : HandleDone(l) \/ MonitorTimer(l))
    /\ WF_vars(InitLoaded)


\* the number of live monitor closures of taskId
LiveCount(taskId) == BagCardinality(LoopsOf(loops, taskId))

\* taskId is saved and its saved status is not completed
Monitored(taskId) == taskId \in DOMAIN storage /\ storage[taskId].status = "active"

\* C11: a failing cycle never halts monitoring: right after a cycle of a task has
\* failed, while the task is neither removed nor completed, a monitor closure of the
\* task is still live (its next cycle pending in a timer or in flight).
C11_FailureKeepsMonitoring ==
    (lastCycle # Undefined /\ lastCycle.outcome = "failed" /\ Monitored(lastCycle.taskId))
        => LiveCount(lastCycle.taskId) > 0

\* C12: when a cycle ends, the consecutive-error count the scheduler reads for the
\* task equals the number of failed cycles since its last successful cycle: 0 right
\* after a success, one more after each failure.
C12_ErrorCountIsStreak ==
    lastCycle # Undefined => lastCycle.errors = lastCycle.streak

\* C13: for every task id at most one monitor cycle is in flight or pending in a
\* timer, whatever addTask calls, resumes and cycle completions came before.
C13_OneLoopPerTask ==
    \A taskId \in TaskIds : LiveCount(taskId) <= 1

\* C14: an addTask call whose validation fails surfaces the error and registers
\* nothing: the step leaves the store and the monitor closures as they were.
C14_FailedValidationRegistersNothing ==
    [][(lastAdd' # Undefined /\ lastAdd'.outcome = "ValidationError")
           => (storage' = storage /\ loops' = loops)]_vars

\* an addTask call for a task never saved has just thrown ValidationError
C14_Witness ==
    /\ lastAdd # Undefined
    /\ lastAdd.outcome = "ValidationError"
    /\ extractTaskId(lastAdd.url) \notin DOMAIN storage
    /\ LiveCount(extractTaskId(lastAdd.url)) = 0

\* C15: once the record of a task is terminal the task is completed and no further
\* cycle is scheduled for it: no timer is pending for a task saved as completed.
C15_CompletedStopsScheduling ==
    \A l \in BagToSet(loops) :
        (l.taskId \in DOMAIN storage /\ storage[l.taskId].status = "completed")
            => l.pc # "timer"

\* C16: a task that was monitored and at rest when the process restarted is
\* reconstructed by resume with the same source locator, cached snapshot and
\* consecutive-error count it had before the restart.
C16_ResumeRoundTrip ==
    (lastResume # Undefined /\ lastResume.quiet /\ lastResume.before # Undefined)
        => lastResume.task = lastResume.before

\* C17: removing a task cancels its pending wait: no timer of a monitor closure is
\* pending for a task that is no longer in the store.
C17_RemovalCancelsWait ==
    \A l \in BagToSet(loops) : l.pc = "timer" => l.taskId \in DOMAIN storage

\* C18: a failure while resuming one task in initialize does not keep the other
\* saved tasks from being started: when initialize has ended on a failed resume,
\* no active task is left behind it in the list of saved entries.
C18_ResumeFailureIsolated ==
    initState = "failed" =>
        \A k \in 2..Len(initQueue) : initQueue[k].taskData.status # "active"

\* the delay getTaskInterval gives for a task without errors whose last change is the
\* one saved with it
PersistedTier(taskId) ==
    getTaskInterval(EmptyMap, MapSet(EmptyMap, taskId, SavedLastChange(storage[taskId])),
                    now, taskId)

\* C25: after a restart the delay before a cycle of a resumed task is computed from
\* the last-change time saved with the task: a cycle of a task without errors that is
\* in flight after the restart was started by a timer of the tier of the saved time
\* (15 min beyond 24 h, 5 min beyond 1 h).
C25_ResumeUsesPersistedChange ==
    \A l \in BagToSet(loops) :
        (/\ spent.restarts = 1
         /\ l.pc = "fetch"
         /\ l.taskId \in DOMAIN storage
         /\ SavedLastChange(storage[l.taskId]) # 0
         /\ now - SavedLastChange(storage[l.taskId]) > 3600000
         /\ errorCountOf(errorCounts, l.taskId) = 0)
            => l.delay = PersistedTier(l.taskId)

\* C26: every cycle of a monitor closure, the first one after addTask or resume
\* included, starts only after getTaskInterval was asked for a delay and a timer of
\* that delay has fired.
C26_CycleWaitsForDelay ==
    \A l \in BagToSet(loops) : l.pc = "fetch" => l.delay > 0

C28_SuccessPersistsLastCheck ==
    [][(/\ lastCycle' # Undefined
        /\ lastCycle'.outcome = "ok"
        /\ lastCycle'.taskId \in DOMAIN storage)
           => /\ lastCycle'.taskId \in DOMAIN storage'
              /\ storage'[lastCycle'.taskId].lastCheck = now'
              /\ ~lastCycle'.changed
                     => storage' = [storage EXCEPT ![lastCycle'.taskId].lastCheck = now']]_vars

\* a cycle of taskId is awaiting fetchTaskXML
InFlight(taskId) == \E l \in BagToSet(loops) : l.taskId = taskId /\ l.pc = "fetch"

\* C29: every started cycle eventually ends as a success or a failure, whether or not
\* the remote answers: a task with a fetch in flight gets to a state with no fetch in
\* flight.
C29_CycleEnds ==
    \A taskId \in TaskIds : InFlight(taskId) ~> ~InFlight(taskId)

\* C38: after a restart at rest, the first successful cycle of a resumed task whose
\* remote record is the one the task's cycles had seen before the restart reports no
\* changes and hands nothing to the NotificationManager.
C38_ResumeSeesNoChange ==
    (/\ lastCycle # Undefined
     /\ lastCycle.outcome = "ok"
     /\ lastCycle.repeat
     /\ Monitored(lastCycle.taskId))
        => (~lastCycle.changed /\ lastCycle.handed = 0)

\* C40: when addTask has started the monitor of a task, the task is in the store,
\* saved under its id with the url the monitor fetches: saveTask is completed before
\* the first cycle starts.
C40_StartedTaskIsSaved ==
    (lastAdd # Undefined /\ lastAdd.outcome = "returned")
        => /\ extractTaskId(lastAdd.url) \in DOMAIN storage
           /\ storage[extractTaskId(lastAdd.url)].url = lastAdd.url
           /\ storage[extractTaskId(lastAdd.url)].status = "active"

\* addTask has just returned: the first cycle of the task is in flight, started
\* without a timer, and the task is saved as built by addTask
C40_Witness ==
    /\ lastAdd # Undefined
    /\ lastAdd.outcome = "returned"
    /\ \E l \in BagToSet(loops) :
           l.taskId = extractTaskId(lastAdd.url) /\ l.pc = "fetch" /\ l.delay = 0
    /\ extractTaskId(lastAdd.url) \in DOMAIN storage
    /\ storage[extractTaskId(lastAdd.url)].lastCheck = 0

====
